---- MODULE Spec2Model ----
(***************************************************************************)
(* Model of the SharePoint -> blob storage delta sync engine               *)
(* (src/src/sharepoint_sync.py): token cache, page fetch with retry,       *)
(* per-item mirroring, cursor persistence, blob key derivation; of the     *)
(* two search provisioning clients (src/src/azure_search_setup.py,         *)
(* src/src/azure_search_integrated_vectorization.py), the commands of      *)
(* src/main.py that use them, the configuration checks                     *)
(* (src/config/settings.py) and the vertical recommender                   *)
(* (src/vertical_recommender.py).                                          *)
(*                                                                         *)
(* Strings that the code takes apart (paths, file names, blob keys) are    *)
(* sequences of tokens; "/" and ":" are the separator tokens, every other  *)
(* token stands for a run of ordinary characters.                          *)
(***************************************************************************)
EXTENDS Integers, Sequences, FiniteSets, TLC

\* ------------------------------------------------------------------ bounds
\* longest parent path (in tokens) that the key-derivation runs enumerate
MaxPathLen == 5
\* how many times the clock may advance by TickSeconds
MaxTicks == 1
\* the newest change-feed generation the server hands out as a deltaLink
LastCursor == 2

\* ------------------------------------------------------- program constants
\* tenacity stop_after_attempt(3) on graph_get
StopAfterAttempt == 3
\* "subtract 5 minutes for safety" in get_token
SafetyMargin == 300
\* result.get("expires_in", 3600)
DefaultExpiresIn == 3600

\* ------------------------------------------------------------ string tools
SEP == "/"
COLON == ":"

\* c in s
Contains(s, c) == \E i \in 1..Len(s) : s[i] = c

\* s.split(":")[-1] : the text after the last colon
RECURSIVE AfterLastColon(_)
AfterLastColon(s) ==
    IF ~Contains(s, COLON) THEN s
    ELSE IF s[Len(s)] = COLON THEN <<>>
    ELSE AfterLastColon(Tail(s))

\* s.lstrip("/")
RECURSIVE LStripSep(_)
LStripSep(s) == IF s # <<>> /\ s[1] = SEP THEN LStripSep(Tail(s)) ELSE s

\* s.rstrip("/")
RECURSIVE RStripSep(_)
RStripSep(s) ==
    IF s # <<>> /\ s[Len(s)] = SEP THEN RStripSep(SubSeq(s, 1, Len(s) - 1)) ELSE s

\* s.strip("/")
StripSep(s) == RStripSep(LStripSep(s))

\* s.replace("//", "/") : one left-to-right pass over non-overlapping matches
RECURSIVE ReplaceDoubleSep(_)
ReplaceDoubleSep(s) ==
    IF Len(s) < 2 THEN s
    ELSE IF s[1] = SEP /\ s[2] = SEP
         THEN <<SEP>> \o ReplaceDoubleSep(SubSeq(s, 3, Len(s)))
         ELSE <<s[1]>> \o ReplaceDoubleSep(Tail(s))

\* SharePointSync.get_safe_blob_key
get_safe_blob_key(parent_path, file_name) ==
    LET rel_path == IF Contains(parent_path, COLON)
                    THEN StripSep(AfterLastColon(parent_path))
                    ELSE StripSep(parent_path)
    IN  IF rel_path # <<>>
        THEN ReplaceDoubleSep(rel_path \o <<SEP>> \o file_name)
        ELSE file_name

\* f"{blob_key}.json" in upload_sidecar
sidecar_key(blob_key) == blob_key \o <<".json">>


\* ------------------------------------------------------------ environment
\* outcomes of one interactive device-authorization flow (get_token):
\* "nocode": initiate_device_flow returned no user_code; "denied": no
\* access_token in the result (abandoned or rejected)
FlowOutcome == {"ok", "nocode", "denied"}
\* answers to one GET: 2xx, 401, or any other failure (HTTP error status or
\* a network exception)
Resp == {"ok", "401", "err"}
\* lifetimes the identity provider may grant
ExpiresIn == {DefaultExpiresIn}
\* the clock advances in steps of one token lifetime
TickSeconds == DefaultExpiresIn
StartTime == TickSeconds

\* the remote tree: change-feed entries (driveItem resources)
Items ==
    << [id |-> 1, folder |-> TRUE,  deleted |-> FALSE,
        path |-> <<"drv", COLON>>, name |-> <<"A">>],
       [id |-> 2, folder |-> FALSE, deleted |-> FALSE,
        path |-> <<"drv", COLON, SEP, "A", SEP>>, name |-> <<"f">>],
       [id |-> 3, folder |-> FALSE, deleted |-> FALSE,
        path |-> <<SEP, "A">>, name |-> <<"f", ".json">>],
       [id |-> 4, folder |-> FALSE, deleted |-> TRUE,
        path |-> <<>>, name |-> <<"d">>] >>

ItemIds == 1..Len(Items)
FileIds == {i \in ItemIds : ~Items[i].folder}

\* a request URL of the change feed: the traversal it belongs to (0: the
\* full traversal from the root folder, c > 0: the changes since cursor c)
\* and the page within it
NoUrl == [cursor |-> 0, page |-> 0]
Url(c, p) == [cursor |-> c, page |-> p]

\* the deltaLink the server issues at the end of the traversal from c
TerminalOf(c) == IF c < LastCursor THEN c + 1 ELSE LastCursor

\* the page the server answers with: value, @odata.nextLink (NoUrl: absent),
\* @odata.deltaLink (0: absent)
FeedPage(url) ==
    IF url.cursor = 0
    THEN IF url.page = 1
         THEN [value |-> <<1, 2>>, nextLink |-> Url(0, 2), deltaLink |-> 0]
         ELSE [value |-> <<3>>, nextLink |-> Url(0, url.page + 1),
               deltaLink |-> TerminalOf(0)]
    ELSE IF url.cursor < LastCursor
    THEN [value |-> <<2, 4>>, nextLink |-> NoUrl, deltaLink |-> TerminalOf(url.cursor)]
    ELSE [value |-> <<>>, nextLink |-> NoUrl, deltaLink |-> TerminalOf(url.cursor)]

\* ------------------------------------------------------------------ state
VARIABLES
    cursorFile,        \* config.delta_state_file on disk
    store,             \* the blob container: key -> blob
    remoteVer,         \* the remote files' current content versions
    token,             \* self.token (FALSE: None)
    token_expires_at,  \* self.token_expires_at
    now,               \* time.time()
    pc,                \* where sync_sharepoint_folder stands
    delta_url,         \* its local delta_url
    data,              \* the page being processed
    idx,               \* position of the for loop in data.value
    total_files, processed_files, errors,
    attempt,           \* tenacity's attempt number in the running graph_get
    hist,              \* history of the current run
    op,                \* the last HTTP attempt (page fetch or byte fetch)
    last,              \* the last process_sharepoint_item call
    kpc, arg_parent_path, arg_file_name, ret_blob_key,  \* a get_safe_blob_key call
    setup,             \* the full_setup command that called the sync
    tk,                \* the last direct get_token call
    srv,               \* the search service: the resources that exist on it
    reqs,              \* the requests the running provisioning call has sent
    vcall,             \* the running create_vertical / delete_vertical call
    cli,               \* the last single operation of a search client
    boot,              \* the last construction of a component or full_setup start
    cmd,               \* the running run-indexer command
    rec                \* the last choose_vertical call

vars == << cursorFile, store, remoteVer, token, token_expires_at, now, pc, delta_url,
           data, idx, total_files, processed_files, errors, attempt, hist, op, last,
           kpc, arg_parent_path, arg_file_name, ret_blob_key, setup, tk, srv, reqs,
           vcall, cli, boot, cmd, rec >>

engineVars == << cursorFile, store, remoteVer, token, token_expires_at, now, pc,
                 delta_url, data, idx, total_files, processed_files, errors, attempt,
                 hist, op, last >>
keyVars == << kpc, arg_parent_path, arg_file_name, ret_blob_key >>
searchVars == << srv, reqs, vcall >>
otherVars == << cli, boot, cmd, rec >>


\* ------------------------------------------------------------- token cache
\* mutant: the expiry is cached without the safety margin
get_token_NoMargin(tok, exp, t, flow, expires_in) ==
    IF tok /\ t < exp
    THEN [ok |-> TRUE, token |-> tok, expires |-> exp, flows |-> 0]
    ELSE IF flow = "ok"
    THEN [ok |-> TRUE, token |-> TRUE, expires |-> t + expires_in, flows |-> 1]
    ELSE [ok |-> FALSE, token |-> tok, expires |-> exp, flows |-> 1]
\* SharePointSync.get_token at time t with the cache (tok, exp); flow and
\* expires_in are what the identity provider answers if a device flow is
\* started. flows counts the device flows started by the call.
get_token(tok, exp, t, flow, expires_in) ==
    IF tok /\ t < exp
    THEN [ok |-> TRUE, token |-> tok, expires |-> exp, flows |-> 0]
    ELSE IF flow = "ok"
    THEN [ok |-> TRUE, token |-> TRUE, expires |-> t + expires_in - SafetyMargin,
          flows |-> 1]
    ELSE [ok |-> FALSE, token |-> tok, expires |-> exp, flows |-> 1]

\* whether get_token would start a device flow
NeedsFlow(tok, exp, t) == ~(tok /\ t < exp)

\* --------------------------------------------------- what the network does
\* One attempt's environment: env.flow1 / env.flow2 answer the device flows
\* of the first and of the forced second get_token, env.r1 / env.r2 the two
\* GETs, env.expires_in the lifetime granted. Parts the attempt cannot reach
\* are "none".
F1(tok, exp, t) == IF NeedsFlow(tok, exp, t) THEN FlowOutcome ELSE {"none"}
R1(f1, answers) == IF f1 \in {"ok", "none"} THEN answers ELSE {"none"}
F2(r1) == IF r1 = "401" THEN FlowOutcome ELSE {"none"}
R2(f2, answers) == IF f2 = "ok" THEN answers ELSE {"none"}
EX(f1, f2) == IF f1 = "ok" \/ f2 = "ok" THEN ExpiresIn ELSE {DefaultExpiresIn}

\* ------------------------------------------------------------- HTTP calls
\* mutant: the 401 branch asks get_token again without clearing the cache
graph_get_body_NoClear(tok, exp, t, env) ==
    LET g1 == get_token(tok, exp, t, env.flow1, env.expires_in)
        g2 == get_token(g1.token, g1.expires, t, env.flow2, env.expires_in)
    IN  IF ~g1.ok
        THEN [outcome |-> "auth", token |-> g1.token, expires |-> g1.expires,
              flows |-> g1.flows, sends |-> 0, refreshes |-> 0]
        ELSE IF env.r1 = "401"
        THEN [outcome |-> IF env.r2 = "ok" THEN "ok" ELSE "http",
              token |-> g2.token, expires |-> g2.expires,
              flows |-> g1.flows + g2.flows, sends |-> 2, refreshes |-> 1]
        ELSE [outcome |-> IF env.r1 = "ok" THEN "ok" ELSE "http",
              token |-> g1.token, expires |-> g1.expires,
              flows |-> g1.flows, sends |-> 1, refreshes |-> 0]

\* One execution of the body of graph_get (one tenacity attempt).
\* outcome: "ok" (response.json() returned), "auth" (get_token raised),
\* "http" (raise_for_status or the transport raised).
graph_get_body(tok, exp, t, env) ==
    LET g1 == get_token(tok, exp, t, env.flow1, env.expires_in)
        \* self.token = None; self.token_expires_at = 0; self.get_token()
        g2 == get_token(FALSE, 0, t, env.flow2, env.expires_in)
    IN  IF ~g1.ok
        THEN [outcome |-> "auth", token |-> g1.token, expires |-> g1.expires,
              flows |-> g1.flows, sends |-> 0, refreshes |-> 0]
        ELSE IF env.r1 = "401"
        THEN IF ~g2.ok
             THEN [outcome |-> "auth", token |-> g2.token, expires |-> g2.expires,
                   flows |-> g1.flows + g2.flows, sends |-> 1, refreshes |-> 1]
             ELSE [outcome |-> IF env.r2 = "ok" THEN "ok" ELSE "http",
                   token |-> g2.token, expires |-> g2.expires,
                   flows |-> g1.flows + g2.flows, sends |-> 2, refreshes |-> 1]
        ELSE [outcome |-> IF env.r1 = "ok" THEN "ok" ELSE "http",
              token |-> g1.token, expires |-> g1.expires,
              flows |-> g1.flows, sends |-> 1, refreshes |-> 0]

\* The body of stream_download. The function is a generator: calling it
\* through the @retry wrapper only creates the generator object, which is a
\* successful call for tenacity; the body runs once, later, when upload_blob
\* joins the chunks, outside the wrapper. Nothing it raises is retried.
stream_download_body(tok, exp, t, env) ==
    LET g1 == get_token(tok, exp, t, env.flow1, env.expires_in)
        g2 == get_token(FALSE, 0, t, env.flow2, env.expires_in)
    IN  IF ~g1.ok
        THEN [outcome |-> "auth", token |-> g1.token, expires |-> g1.expires,
              flows |-> g1.flows, sends |-> 0, refreshes |-> 0]
        ELSE IF env.r1 = "401"
        THEN IF ~g2.ok
             THEN [outcome |-> "auth", token |-> g2.token, expires |-> g2.expires,
                   flows |-> g1.flows + g2.flows, sends |-> 1, refreshes |-> 1]
             ELSE [outcome |-> IF env.r2 = "ok" THEN "ok" ELSE "http",
                   token |-> g2.token, expires |-> g2.expires,
                   flows |-> g1.flows + g2.flows, sends |-> 2, refreshes |-> 1]
        ELSE [outcome |-> IF env.r1 = "ok" THEN "ok" ELSE "http",
              token |-> g1.token, expires |-> g1.expires,
              flows |-> g1.flows, sends |-> 1, refreshes |-> 0]

\* ------------------------------------------------------------- blob store
NoBlobs == [k \in {} |-> 0]

\* mutant: an existing blob is left as it is
PutBlob_KeepExisting(st, key, blob) ==
    [k \in DOMAIN st \cup {key} |-> IF k \in DOMAIN st THEN st[k] ELSE blob]
\* blob_client.upload_blob(..., overwrite=True)
PutBlob(st, key, blob) ==
    [k \in DOMAIN st \cup {key} |-> IF k = key THEN blob ELSE st[k]]

\* mutant: a failed upload removes what the key held
upload_blob_DeletesOnFailure(st, blob_key, dl, content, metadata, upload) ==
    IF dl.outcome = "ok" /\ upload = "ok"
    THEN [ok |-> TRUE,
          store |-> PutBlob(st, blob_key, [kind |-> "blob", content |-> content,
                                            metadata |-> metadata])]
    ELSE [ok |-> FALSE, store |-> [k \in DOMAIN st \ {blob_key} |-> st[k]]]
\* SharePointSync.upload_blob: joins the download stream, then uploads; any
\* exception of either becomes SharePointSyncError
upload_blob(st, blob_key, dl, content, metadata, upload) ==
    IF dl.outcome = "ok" /\ upload = "ok"
    THEN [ok |-> TRUE,
          store |-> PutBlob(st, blob_key, [kind |-> "blob", content |-> content,
                                            metadata |-> metadata])]
    ELSE [ok |-> FALSE, store |-> st]

\* SharePointSync.upload_sidecar: never raises
upload_sidecar(st, blob_key, sidecar_data, sidecar) ==
    IF sidecar = "ok"
    THEN PutBlob(st, sidecar_key(blob_key),
                 [kind |-> "sidecar", content |-> sidecar_data, metadata |-> 0])
    ELSE st

\* mutant: a failed sidecar upload fails the mirror of the item
process_sharepoint_item_SidecarFatal(item, ver, tok, exp, t, st, env) ==
    LET blob_key == get_safe_blob_key(item.path, item.name)
        dl == stream_download_body(tok, exp, t, env)
        metadata == [sp_item_id |-> item.id, sp_etag |-> ver, sp_file_name |-> item.name]
        up == upload_blob(st, blob_key, dl, [item |-> item.id, bytes |-> ver],
                          metadata, env.upload)
    IN  [success |-> up.ok /\ env.sidecar = "ok", blob_key |-> blob_key, dl |-> dl,
         store |-> IF up.ok /\ env.sidecar = "ok"
                   THEN upload_sidecar(up.store, blob_key,
                            [name |-> item.name, lastModified |-> ver,
                             blobKey |-> blob_key], env.sidecar)
                   ELSE up.store]
\* SharePointSync.process_sharepoint_item for a file entry. ver is the
\* remote file's version: its eTag and lastModifiedDateTime in the entry and
\* the bytes the content URL serves.
process_sharepoint_item(item, ver, tok, exp, t, st, env) ==
    LET blob_key == get_safe_blob_key(item.path, item.name)
        dl == stream_download_body(tok, exp, t, env)
        metadata == [sp_item_id |-> item.id, sp_etag |-> ver, sp_file_name |-> item.name]
        up == upload_blob(st, blob_key, dl, [item |-> item.id, bytes |-> ver],
                          metadata, env.upload)
        sidecar_data == [name |-> item.name, lastModified |-> ver, blobKey |-> blob_key]
    IN  IF up.ok
        THEN [success |-> TRUE, blob_key |-> blob_key, dl |-> dl,
              store |-> upload_sidecar(up.store, blob_key, sidecar_data, env.sidecar)]
        ELSE [success |-> FALSE, blob_key |-> blob_key, dl |-> dl, store |-> up.store]

\* ------------------------------------------------------------ cursor file
NoFile == [st |-> "absent", delta_url |-> 0]
CorruptFile == [st |-> "corrupt", delta_url |-> 0]
CursorJson(c) == [st |-> "ok", delta_url |-> c]

\* load_delta_state followed by state.get("delta_url"): 0 stands for None
load_delta_state(file) == IF file.st = "ok" THEN file.delta_url ELSE 0

\* save_delta_state: open(..., 'w') truncates the file, json.dump writes it.
\* io = "ok": written; "openfail": open raised, file untouched; "writefail":
\* the write raised after the truncation. IOError is logged and swallowed.
SaveOutcome == {"ok", "openfail", "writefail"}
save_delta_state(file, c, io) ==
    IF io = "ok" THEN CursorJson(c)
    ELSE IF io = "openfail" THEN file
    ELSE CorruptFile


\* ------------------------------------------------------------ sync engine
NoPage == [value |-> <<>>, nextLink |-> NoUrl, deltaLink |-> 0]
NoOp == [kind |-> "none", attempt |-> 0, r1 |-> "none",
         r2 |-> "none", outcome |-> "none", sends |-> 0,
         refreshes |-> 0, flows |-> 0, opSends |-> 0, opRefreshes |-> 0,
         cached |-> FALSE, would |-> "none"]
NoLast == [item |-> 0, blob_key |-> <<>>, ver |-> 0, success |-> FALSE,
           upload |-> "none", sidecar |-> "none", before |-> NoBlobs]
NoHist == [startFile |-> NoFile, aborted |-> FALSE, authFailed |-> FALSE,
           fetched |-> <<>>, listed |-> <<>>, settled |-> <<>>, saved |-> "none"]

ItemFailed(i) == [kind |-> "item", item |-> i]
SyncFailed == [kind |-> "sync", item |-> 0]

\* mutant: folder entries are counted too
PageFiles_CountsFolders(page) == page.value
\* the files of a page: [item for item in items if not item.get("folder")]
PageFiles(page) == SelectSeq(page.value, LAMBDA i : ~Items[i].folder)

\* mutant: a failed item is counted and its message dropped
tally_CountsFailures(success, message, processed, errs) ==
    [processed_files |-> processed + 1, errors |-> errs]
\* success, message = ...; processed_files += 1 or errors.append(message)
tally(success, message, processed, errs) ==
    IF success
    THEN [processed_files |-> processed + 1, errors |-> errs]
    ELSE [processed_files |-> processed, errors |-> Append(errs, message)]

\* mutant: every run starts the full traversal
initial_delta_url_AlwaysRoot(c) == Url(0, 1)
\* the first request of a run: the stored cursor, or the root folder's delta
initial_delta_url(c) == IF c = 0 THEN Url(0, 1) ELSE Url(c, 1)

\* mutant: the cursor is saved after every page
HasDeltaLink_EveryPage(page) == TRUE
\* "@odata.deltaLink" in data
HasDeltaLink(page) == page.deltaLink # 0
\* final_delta_url = data["@odata.deltaLink"]
final_delta_url(page) == page.deltaLink
\* mutant: the loop goes on to the nextLink after saving
BreakAfterSave_Missing == FALSE
\* the break that follows save_delta_state
BreakAfterSave == TRUE
\* first attempt of a new graph_get call
FirstAttempt == 1
\* mutant: the budget lets a fourth attempt through
stop_after_attempt_OneMore(attempt_number) == attempt_number >= StopAfterAttempt + 1
\* tenacity's stop condition of graph_get: stop_after_attempt(3)
stop_after_attempt(attempt_number) == attempt_number >= StopAfterAttempt

\* ------------------------------------------------- the full_setup command
\* full_setup (main.py) from its Step 2 on: it calls sync_sharepoint_folder,
\* then starts the indexer if the summary counts a processed file.
NoSetup == [pc |-> "none", exit_status |-> 0, indexer_runs |-> 0]
Step2 == [pc |-> "step2", exit_status |-> 0, indexer_runs |-> 0]

\* what follows the return of the sync: the errors of the summary are only
\* logged as a warning; run is the answer to the run request ("fail":
\* run_indexer raises SearchSetupError and the command exits with 1)
full_setup_step3(processed, errs, run) ==
    IF processed > 0
    THEN [pc |-> "exited", exit_status |-> IF run = "ok" THEN 0 ELSE 1, indexer_runs |-> 1]
    ELSE [pc |-> "exited", exit_status |-> 0, indexer_runs |-> 0]

\* ------------------------------------------------- state of the other calls
NoTk == [seq |-> 0, at |-> 0, flows |-> 0, ok |-> TRUE, ret |-> FALSE,
         lease_from |-> 0, lease |-> 0, ticks |-> 0]
NoCall == [op |-> "none", step |-> 0, plan |-> <<>>, names |-> <<>>,
           result |-> "none", report |-> <<>>]
NoCli == [client |-> "none", op |-> "none", answer |-> "none", outcome |-> "none"]
\* nothing constructed, no setting of the .env file set
NoBoot == [what |-> "none", config |-> [present |-> {}, url_format_ok |-> FALSE],
           storage |-> "none",
           outcome |-> "none", requests |-> 0]
NoCmd == [pc |-> "none", sent |-> <<>>, outcome |-> "none"]
\* the categories in the order of CATEGORIES' keys, which is the order
\* tally_files enters them into counts, UNKNOWN after them
CATEGORIES == << "CODE", "DOCUMENTS", "STRUCTURED", "SPREADSHEETS", "MEDIA" >>
Known == {CATEGORIES[k] : k \in 1..Len(CATEGORIES)}
\* counts as tally_files initialises it, no file tallied, nothing chosen
NoChoice == [category |-> "none", confidence |-> 0]
NoRec == [counts |-> [c \in Known \cup {"UNKNOWN"} |-> 0], files |-> 0,
          result |-> NoChoice]

Init ==
    /\ cursorFile = NoFile
    /\ store = NoBlobs
    /\ remoteVer = [i \in FileIds |-> 1]
    /\ token = FALSE
    /\ token_expires_at = 0
    /\ now = StartTime
    /\ pc = "idle"
    /\ delta_url = NoUrl
    /\ data = NoPage
    /\ idx = 0
    /\ total_files = 0
    /\ processed_files = 0
    /\ errors = <<>>
    /\ attempt = 0
    /\ hist = NoHist
    /\ op = NoOp
    /\ last = NoLast
    /\ kpc = "idle"
    /\ arg_parent_path = <<>>
    /\ arg_file_name = <<>>
    /\ ret_blob_key = <<>>
    /\ setup = NoSetup
    /\ tk = NoTk
    /\ srv = {}
    /\ reqs = <<>>
    /\ vcall = NoCall
    /\ cli = NoCli
    /\ boot = NoBoot
    /\ cmd = NoCmd
    /\ rec = NoRec

\* sync_sharepoint_folder up to the loop: load the cursor, build the URL
StartRun ==
    /\ pc \in {"idle", "done"}
    /\ delta_url' = initial_delta_url(load_delta_state(cursorFile))
    /\ total_files' = 0
    /\ processed_files' = 0
    /\ errors' = <<>>
    /\ pc' = "fetch"
    /\ attempt' = FirstAttempt
    /\ data' = NoPage
    /\ idx' = 0
    /\ hist' = [NoHist EXCEPT !.startFile = cursorFile]
    /\ op' = NoOp
    /\ last' = NoLast
    /\ setup' = Step2
    /\ UNCHANGED << cursorFile, store, remoteVer, token, token_expires_at, now, keyVars,
                    tk, searchVars, otherVars >>

\* one attempt of self.graph_get(delta_url) under the network's answers env,
\* and what the loop does with its result
FetchStep(env) ==
    LET g == graph_get_body(token, token_expires_at, now, env)
        page == FeedPage(delta_url)
    IN  /\ pc = "fetch"
        /\ token' = g.token
        /\ token_expires_at' = g.expires
        /\ op' = [kind |-> "page", attempt |-> attempt,
                  r1 |-> env.r1, r2 |-> env.r2,
                  outcome |-> g.outcome, sends |-> g.sends,
                  refreshes |-> g.refreshes, flows |-> g.flows,
                  opSends |-> (IF attempt = FirstAttempt THEN 0 ELSE op.opSends) + g.sends,
                  opRefreshes |-> (IF attempt = FirstAttempt THEN 0 ELSE op.opRefreshes)
                                  + g.refreshes,
                  cached |-> ~NeedsFlow(token, token_expires_at, now),
                  would |-> "none"]
        /\ IF g.outcome = "ok"
           THEN /\ data' = page
                /\ total_files' = total_files + Len(PageFiles(page))
                /\ idx' = 1
                /\ pc' = "items"
                /\ attempt' = 0
                /\ errors' = errors
                /\ hist' = [hist EXCEPT !.fetched = Append(@, delta_url),
                                        !.listed = @ \o SelectSeq(page.value,
                                                        LAMBDA i : i \in FileIds)]
           ELSE IF ~stop_after_attempt(attempt)
           THEN /\ attempt' = attempt + 1
                /\ hist' = [hist EXCEPT !.authFailed = @ \/ g.outcome = "auth"]
                /\ UNCHANGED << data, total_files, idx, pc, errors >>
           ELSE \* RetryError reaches the except clause of the run
                /\ errors' = Append(errors, SyncFailed)
                /\ pc' = "done"
                /\ attempt' = 0
                /\ hist' = [hist EXCEPT !.authFailed = @ \/ g.outcome = "auth",
                                        !.aborted = TRUE]
                /\ UNCHANGED << data, total_files, idx >>
        /\ UNCHANGED << cursorFile, store, remoteVer, now, delta_url, processed_files,
                        last, keyVars,
                    setup, tk, searchVars, otherVars >>

FetchPage ==
    \E f1 \in F1(token, token_expires_at, now) : \E r1 \in R1(f1, Resp) :
    \E f2 \in F2(r1) : \E r2 \in R2(f2, Resp) : \E e \in EX(f1, f2) :
        FetchStep([flow1 |-> f1, r1 |-> r1, flow2 |-> f2, r2 |-> r2, expires_in |-> e])

\* mutant: a folder entry is uploaded as an empty blob under its own key
SkipFolder_Mirrors ==
    /\ pc = "items"
    /\ idx <= Len(data.value)
    /\ Items[data.value[idx]].folder
    /\ idx' = idx + 1
    /\ store' = PutBlob(store, get_safe_blob_key(Items[data.value[idx]].path,
                                                Items[data.value[idx]].name),
                        [kind |-> "blob", content |-> 0, metadata |-> 0])
    /\ UNCHANGED << cursorFile, remoteVer, token, token_expires_at, now, pc,
                    delta_url, data, total_files, processed_files, errors, attempt,
                    hist, op, last, keyVars, setup, tk, searchVars, otherVars >>
\* the loop skips a folder entry
SkipFolder ==
    /\ pc = "items"
    /\ idx <= Len(data.value)
    /\ Items[data.value[idx]].folder
    /\ idx' = idx + 1
    /\ UNCHANGED << cursorFile, store, remoteVer, token, token_expires_at, now, pc,
                    delta_url, data, total_files, processed_files, errors, attempt,
                    hist, op, last, keyVars,
                    setup, tk, searchVars, otherVars >>

\* the loop body for a file entry: process_sharepoint_item and the counting
ItemStep(env) ==
    /\ pc = "items"
    /\ idx <= Len(data.value)
    /\ \E item \in {Items[data.value[idx]]} :
       \E r \in {process_sharepoint_item(item, remoteVer[item.id], token,
                                         token_expires_at, now, store, env)} :
        /\ store' = r.store
        /\ token' = r.dl.token
        /\ token_expires_at' = r.dl.expires
        /\ processed_files' =
               tally(r.success, ItemFailed(item.id), processed_files, errors).processed_files
        /\ errors' = tally(r.success, ItemFailed(item.id), processed_files, errors).errors
        /\ idx' = idx + 1
        /\ op' = [kind |-> "bytes", attempt |-> 1, r1 |-> env.r1,
                  r2 |-> env.r2, outcome |-> r.dl.outcome,
                  sends |-> r.dl.sends, refreshes |-> r.dl.refreshes,
                  flows |-> r.dl.flows, opSends |-> r.dl.sends,
                  opRefreshes |-> r.dl.refreshes,
                  cached |-> ~NeedsFlow(token, token_expires_at, now),
                  would |-> env.would]
        /\ last' = [item |-> item.id, blob_key |-> r.blob_key,
                    ver |-> remoteVer[item.id], success |-> r.success,
                    upload |-> env.upload, sidecar |-> env.sidecar, before |-> store]
        /\ hist' = [hist EXCEPT !.authFailed = @ \/ r.dl.outcome = "auth",
                                !.settled = Append(@, [item |-> item.id, ok |-> r.success])]
    /\ UNCHANGED << cursorFile, remoteVer, now, pc, delta_url, data, total_files,
                    attempt, keyVars,
                    setup, tk, searchVars, otherVars >>

\* what the content URL of an item can answer: a deleted item has no content
Answers(item) == IF item.deleted THEN Resp \ {"ok"} ELSE Resp

\* the answer a further attempt of a failed byte fetch would get
Would(r1, r2, item) ==
    IF r1 = "err" \/ r2 = "err" THEN Answers(item) \ {"401"} ELSE {"none"}

ProcessItem ==
    /\ pc = "items"
    /\ idx <= Len(data.value)
    /\ ~Items[data.value[idx]].folder
    /\ \E f1 \in F1(token, token_expires_at, now) :
       \E r1 \in R1(f1, Answers(Items[data.value[idx]])) :
       \E f2 \in F2(r1) : \E r2 \in R2(f2, Answers(Items[data.value[idx]])) :
       \E e \in EX(f1, f2) :
       \E w \in Would(r1, r2, Items[data.value[idx]]) :
       \E up \in (IF r1 = "ok" \/ r2 = "ok" THEN {"ok", "fail"} ELSE {"none"}) :
       \E sc \in (IF up = "ok" THEN {"ok", "fail"} ELSE {"none"}) :
           ItemStep([flow1 |-> f1, r1 |-> r1, flow2 |-> f2, r2 |-> r2,
                     expires_in |-> e, would |-> w, upload |-> up, sidecar |-> sc])

\* the end of the loop body: next URL, and the save on the final page
EndPage ==
    /\ pc = "items"
    /\ idx > Len(data.value)
    /\ delta_url' = data.nextLink
    /\ \E io \in (IF HasDeltaLink(data) THEN SaveOutcome ELSE {"none"}) :
        /\ cursorFile' = IF HasDeltaLink(data)
                         THEN save_delta_state(cursorFile, final_delta_url(data), io)
                         ELSE cursorFile
        /\ hist' = [hist EXCEPT !.saved = IF HasDeltaLink(data) THEN io ELSE @]
    /\ IF (HasDeltaLink(data) /\ BreakAfterSave) \/ data.nextLink = NoUrl
       THEN pc' = "done" /\ attempt' = 0
       ELSE pc' = "fetch" /\ attempt' = FirstAttempt
    /\ op' = NoOp
    /\ last' = NoLast
    /\ UNCHANGED << store, remoteVer, token, token_expires_at, now, data, idx,
                    total_files, processed_files, errors, keyVars,
                    setup, tk, searchVars, otherVars >>

\* time passes
Tick ==
    /\ now < StartTime + MaxTicks * TickSeconds
    /\ now' = now + TickSeconds
    /\ UNCHANGED << cursorFile, store, remoteVer, token, token_expires_at, pc, delta_url,
                    data, idx, total_files, processed_files, errors, attempt, hist, op,
                    last, keyVars,
                    setup, tk, searchVars, otherVars >>

\* full_setup after sync_sharepoint_folder returned its summary
FullSetupStep3 ==
    /\ pc = "done"
    /\ setup.pc = "step2"
    /\ \E run \in (IF processed_files > 0 THEN {"ok", "fail"} ELSE {"none"}) :
           setup' = full_setup_step3(processed_files, errors, run)
    /\ UNCHANGED << engineVars, keyVars, tk, searchVars, otherVars >>

Next ==
    StartRun \/ FetchPage \/ SkipFolder \/ ProcessItem \/ EndPage \/ Tick
    \/ FullSetupStep3

Spec == Init /\ [][Next]_vars

\* --------------------------------------------------------------- fairness
\* The fairness conditions name the steps of the run by their effect on its
\* position, which tells them apart among the steps of Next.
pos == << pc, idx, attempt >>

\* a step of the run: StartRun, an attempt of FetchPage, SkipFolder,
\* ProcessItem or EndPage. One of them is possible in every state.
RunAdvances ==
    \/ /\ pc \in {"idle", "done"}
       /\ pc' = "fetch" /\ idx' = 0 /\ attempt' = FirstAttempt
    \/ /\ pc = "fetch"
       /\ \/ pc' = "items" /\ idx' = 1 /\ attempt' = 0
          \/ pc' = "done" /\ idx' = idx /\ attempt' = 0
          \/ pc' = "fetch" /\ idx' = idx /\ attempt' = attempt + 1
    \/ /\ pc = "items"
       /\ \/ pc' = "items" /\ idx' = idx + 1 /\ attempt' = attempt
          \/ pc' = "done" /\ idx' = idx /\ attempt' = 0
          \/ pc' = "fetch" /\ idx' = idx /\ attempt' = FirstAttempt

\* the requests a run can issue
PageUrls == {Url(0, 1), Url(0, 2)} \cup {Url(c, 1) : c \in 1..LastCursor}

\* an attempt of FetchPage on u that succeeds (always among the outcomes the
\* network can produce)
FetchOk(u) ==
    /\ pc = "fetch" /\ delta_url = u
    /\ pc' = "items" /\ idx' = 1 /\ attempt' = 0

\* Spec with the sync re-run for ever, every call returning, and every page
\* fetch that is tried again and again eventually succeeding
FairSpec ==
    /\ Spec
    /\ WF_pos(RunAdvances)
    /\ \A u \in PageUrls : SF_pos(FetchOk(u))

\* Spec with every call of the run (page fetch attempt, item mirror, cursor
\* write) returning or failing, and nothing more
ReturningSpec == Spec /\ WF_pos(RunAdvances)

\* ------------------------------------------- runs from any cursor file
\* what a run can find at config.delta_state_file: no file, an unreadable
\* one, JSON without a (non-empty) delta_url, or a stored cursor
CursorFiles ==
    {NoFile, CorruptFile, CursorJson(0)} \cup {CursorJson(c) : c \in 1..LastCursor}

InitStart ==
    /\ cursorFile \in CursorFiles
    /\ store = NoBlobs
    /\ remoteVer = [i \in FileIds |-> 1]
    /\ token = FALSE
    /\ token_expires_at = 0
    /\ now = StartTime
    /\ pc = "idle"
    /\ delta_url = NoUrl
    /\ data = NoPage
    /\ idx = 0
    /\ total_files = 0
    /\ processed_files = 0
    /\ errors = <<>>
    /\ attempt = 0
    /\ hist = NoHist
    /\ op = NoOp
    /\ last = NoLast
    /\ kpc = "idle"
    /\ arg_parent_path = <<>>
    /\ arg_file_name = <<>>
    /\ ret_blob_key = <<>>
    /\ setup = NoSetup
    /\ tk = NoTk
    /\ srv = {}
    /\ reqs = <<>>
    /\ vcall = NoCall
    /\ cli = NoCli
    /\ boot = NoBoot
    /\ cmd = NoCmd
    /\ rec = NoRec

NextStart == StartRun \/ FetchPage \/ SkipFolder \/ ProcessItem \/ EndPage

SpecStart == InitStart /\ [][NextStart]_vars

\* ---------------------------------------------------- the token cache alone
\* how often the clock of these runs may move
MaxTokenTicks == 3
\* lifetimes the identity provider grants, the steps of the clock, and the
\* seconds the operator takes to complete a device flow
TokenLifetimes == {DefaultExpiresIn, SafetyMargin + 1}
TokenSteps == {1, SafetyMargin - 1, DefaultExpiresIn - SafetyMargin - 1}
FlowSeconds == {0, 1}

\* a direct call of get_token(); a device flow blocks for d seconds
TokenCall ==
    /\ pc = "idle"
    /\ \E flow \in F1(token, token_expires_at, now) :
       \E e \in (IF flow = "ok" THEN TokenLifetimes ELSE {DefaultExpiresIn}) :
       \E d \in (IF flow = "none" \/ tk.ticks >= MaxTokenTicks THEN {0} ELSE FlowSeconds) :
       \E g \in {get_token(token, token_expires_at, now, flow, e)} :
           /\ token' = g.token
           /\ token_expires_at' = g.expires
           /\ now' = now + d
           /\ tk' = [seq |-> 1 - tk.seq, at |-> now, flows |-> g.flows, ok |-> g.ok,
                     ret |-> IF g.ok THEN g.token ELSE FALSE,
                     lease_from |-> IF g.ok /\ g.flows = 1 THEN now ELSE tk.lease_from,
                     lease |-> IF g.ok /\ g.flows = 1 THEN e ELSE tk.lease,
                     ticks |-> tk.ticks + (IF d > 0 THEN 1 ELSE 0)]
    /\ UNCHANGED << cursorFile, store, remoteVer, pc, delta_url, data, idx, total_files,
                    processed_files, errors, attempt, hist, op, last, keyVars, setup,
                    searchVars, otherVars >>

\* time passes between two calls
TokenTick ==
    /\ tk.ticks < MaxTokenTicks
    /\ \E step \in TokenSteps : now' = now + step
    /\ tk' = [tk EXCEPT !.ticks = @ + 1]
    /\ UNCHANGED << cursorFile, store, remoteVer, token, token_expires_at, pc, delta_url,
                    data, idx, total_files, processed_files, errors, attempt, hist, op,
                    last, keyVars, setup, searchVars, otherVars >>

NextToken == TokenCall \/ TokenTick

SpecToken == Init /\ [][NextToken]_vars

\* ------------------------------------------------- search provisioning
\* (src/src/azure_search_integrated_vectorization.py)
Kinds == {"datasource", "index", "skillset", "indexer"}

\* a resource name: given explicitly, derived from the prefix (ds-{safe},
\* ...), or derived from the prefix for the -json vertical
Name(kind, from) == [kind |-> kind, from |-> from]

\* ds_name = data_source_name or f"ds-{safe}", and so on
resolve_names(explicit) ==
    [k \in Kinds |-> IF k \in explicit THEN Name(k, "explicit") ELSE Name(k, "prefix")]
json_names == [k \in Kinds |-> Name(k, "json")]
\* the names delete_vertical builds from the prefix
prefix_names == [k \in Kinds |-> Name(k, "prefix")]

\* what the service can answer to a request: a 2xx status; a non-2xx status
\* with a JSON body that has an "error" member, with a JSON body that has
\* none, or with a body that is not JSON; or no answer (RequestException)
Answer == {"2xx", "err_json", "other_json", "text", "exc"}
Failures == Answer \ {"2xx"}

\* _make_request: raises on RequestException; a 2xx answer gives the body
\* or {"status": "success"}; any other status gives the body, or
\* {"error": ...} built around a body that is not JSON
make_request(ans) ==
    [raised |-> ans = "exc", error_key |-> ans \in {"err_json", "text"}]

\* create_data_source, create_index..., create_skillset, create_indexer...,
\* run_indexer after their request: `if "error" in result: raise`
request_fails(ans) == make_request(ans).raised \/ make_request(ans).error_key

\* one request of a plan; the service can answer it 2xx only if the
\* resources in needs exist
Req(method, name, needs) == [method |-> method, name |-> name, needs |-> needs]

\* the requests of one vertical in the order create_vertical makes them
VerticalPlan(n) ==
    << Req("PUT", n["datasource"], {}),
       Req("PUT", n["index"], {}),
       Req("PUT", n["skillset"], {}),
       Req("PUT", n["indexer"], {n["datasource"], n["index"], n["skillset"]}),
       Req("POST", n["indexer"], {n["indexer"]}) >>

\* create_vertical's requests: the vertical, then the -json vertical if asked
create_vertical_plan(names, create_json_vertical) ==
    VerticalPlan(names) \o (IF create_json_vertical THEN VerticalPlan(json_names) ELSE <<>>)

\* delete_vertical's requests: indexer, skillset, index, data source
delete_vertical_plan ==
    << Req("DELETE", prefix_names["indexer"], {prefix_names["indexer"]}),
       Req("DELETE", prefix_names["skillset"], {prefix_names["skillset"]}),
       Req("DELETE", prefix_names["index"], {prefix_names["index"]}),
       Req("DELETE", prefix_names["datasource"], {prefix_names["datasource"]}) >>

\* report = {k: {"name": v, "deleted": False, "status": "skipped"} ...}
initial_report == [k \in Kinds |-> [deleted |-> FALSE, status |-> "skipped"]]

\* mutant: an exception of one deletion leaves delete_vertical
delete_entry_Propagates(ans) ==
    IF make_request(ans).raised
    THEN [deleted |-> FALSE, status |-> "error", raised |-> TRUE]
    ELSE [deleted |-> TRUE, status |-> "deleted", raised |-> FALSE]
\* _delete(kind, endpoint) inside its try/except: whatever _make_request
\* returns, the entry becomes deleted; only an exception makes it an error
delete_entry(ans) ==
    IF make_request(ans).raised
    THEN [deleted |-> FALSE, status |-> "error", raised |-> FALSE]
    ELSE [deleted |-> TRUE, status |-> "deleted", raised |-> FALSE]

\* The service's state is followed for the resources of the vertical itself;
\* a request about the -json vertical may be answered in any way.
Followed(name) == name.from # "json"
\* what the service may answer to req, and what the request does to it
AnswersTo(req, server) ==
    IF {n \in req.needs : Followed(n)} \subseteq server THEN Answer ELSE Failures
Effect(req, ans, server) ==
    IF ans # "2xx" \/ ~Followed(req.name) THEN server
    ELSE IF req.method \in {"PUT", "POST_TO_COLLECTION"} THEN server \cup {req.name}
    ELSE IF req.method = "DELETE" THEN server \ {req.name}
    ELSE server

\* the explicit names a create_vertical call may be given
ExplicitChoices == {{}, {"index"}}

\* create_vertical(prefix, ...) up to its first request; a prefix without
\* any usable character, or a storage configuration create_data_source
\* refuses, raises before any request
StartCreate ==
    /\ vcall.result # "running"
    /\ \E usable \in BOOLEAN : \E explicit \in ExplicitChoices : \E json \in BOOLEAN :
           vcall' = [op |-> "create_vertical",
                     step |-> 1,
                     plan |-> create_vertical_plan(resolve_names(explicit), json),
                     names |-> resolve_names(explicit),
                     result |-> IF usable THEN "running" ELSE "raised",
                     report |-> <<>>]
    /\ reqs' = <<>>
    /\ UNCHANGED << engineVars, keyVars, setup, tk, srv, otherVars >>

\* the next request of create_vertical and what its wrapper makes of the answer
CreateStep ==
    /\ vcall.op = "create_vertical" /\ vcall.result = "running"
    /\ \E req \in {vcall.plan[vcall.step]} : \E ans \in AnswersTo(req, srv) :
           /\ reqs' = Append(reqs, [method |-> req.method, name |-> req.name,
                                    answer |-> ans, existed |-> req.name \in srv])
           /\ srv' = Effect(req, ans, srv)
           /\ vcall' = IF request_fails(ans)
                        THEN [vcall EXCEPT !.result = "raised"]
                        ELSE IF vcall.step = Len(vcall.plan)
                        THEN [vcall EXCEPT !.result = "started"]
                        ELSE [vcall EXCEPT !.step = @ + 1]
    /\ UNCHANGED << engineVars, keyVars, setup, tk, otherVars >>

\* delete_vertical(prefix) up to its first request
StartDelete ==
    /\ vcall.result # "running"
    /\ \E usable \in BOOLEAN :
           vcall' = [op |-> "delete_vertical",
                     step |-> 1,
                     plan |-> delete_vertical_plan,
                     names |-> prefix_names,
                     result |-> IF usable THEN "running" ELSE "raised",
                     report |-> initial_report]
    /\ reqs' = <<>>
    /\ UNCHANGED << engineVars, keyVars, setup, tk, srv, otherVars >>

\* the next DELETE of delete_vertical and its entry in the report
DeleteStep ==
    /\ vcall.op = "delete_vertical" /\ vcall.result = "running"
    /\ \E req \in {vcall.plan[vcall.step]} : \E ans \in AnswersTo(req, srv) :
       \E e \in {delete_entry(ans)} :
           /\ reqs' = Append(reqs, [method |-> req.method, name |-> req.name,
                                    answer |-> ans, existed |-> req.name \in srv])
           /\ srv' = Effect(req, ans, srv)
           /\ vcall' = [vcall EXCEPT
                           !.report[req.name.kind] =
                               [deleted |-> e.deleted, status |-> e.status],
                           !.result = IF e.raised THEN "raised"
                                      ELSE IF vcall.step = Len(vcall.plan) THEN "returned"
                                      ELSE "running",
                           !.step = @ + 1]
    /\ UNCHANGED << engineVars, keyVars, setup, tk, otherVars >>

NextSearch == StartCreate \/ CreateStep \/ StartDelete \/ DeleteStep

SpecSearch == Init /\ [][NextSearch]_vars

\* ------------------------------------------------- key derivation alone
\* the inputs the key-derivation runs enumerate
PathAlphabet == {SEP, COLON, "A"}
Paths == UNION {[1..n -> PathAlphabet] : n \in 0..MaxPathLen}
Names == {<<"f">>, <<"f", ".json">>}

InitKey ==
    /\ cursorFile = NoFile
    /\ store = NoBlobs
    /\ remoteVer = [i \in FileIds |-> 1]
    /\ token = FALSE
    /\ token_expires_at = 0
    /\ now = StartTime
    /\ pc = "idle"
    /\ delta_url = NoUrl
    /\ data = NoPage
    /\ idx = 0
    /\ total_files = 0
    /\ processed_files = 0
    /\ errors = <<>>
    /\ attempt = 0
    /\ hist = NoHist
    /\ op = NoOp
    /\ last = NoLast
    /\ kpc = "call"
    /\ arg_parent_path \in Paths
    /\ arg_file_name \in Names
    /\ ret_blob_key = <<>>
    /\ setup = NoSetup
    /\ tk = NoTk
    /\ srv = {}
    /\ reqs = <<>>
    /\ vcall = NoCall
    /\ cli = NoCli
    /\ boot = NoBoot
    /\ cmd = NoCmd
    /\ rec = NoRec

\* blob_key = self.get_safe_blob_key(parent_path, name)
DeriveKey ==
    /\ kpc = "call"
    /\ ret_blob_key' = get_safe_blob_key(arg_parent_path, arg_file_name)
    /\ kpc' = "returned"
    /\ UNCHANGED << engineVars, arg_parent_path, arg_file_name, setup, tk, searchVars, otherVars >>

NextKey == DeriveKey

SpecKey == InitKey /\ [][NextKey]_vars

\* ------------------------------------------------------- mirroring alone
\* the versions a remote file goes through
Versions == {1, 2}

\* a direct call of process_sharepoint_item(item) on a file entry
MirrorStep(i, env) ==
    LET item == Items[i]
        r == process_sharepoint_item(item, remoteVer[i], token, token_expires_at,
                                     now, store, env)
    IN  /\ pc = "idle"
        /\ store' = r.store
        /\ token' = r.dl.token
        /\ token_expires_at' = r.dl.expires
        /\ last' = [item |-> i, blob_key |-> r.blob_key, ver |-> remoteVer[i],
                    success |-> r.success, upload |-> env.upload,
                    sidecar |-> env.sidecar, before |-> store]
        /\ UNCHANGED << cursorFile, remoteVer, now, pc, delta_url, data, idx,
                        total_files, processed_files, errors, attempt, hist, op,
                        keyVars,
                    setup, tk, searchVars, otherVars >>

MirrorCall ==
    \E i \in FileIds :
    \E f1 \in F1(token, token_expires_at, now) :
    \E r1 \in R1(f1, Answers(Items[i])) :
    \E f2 \in F2(r1) : \E r2 \in R2(f2, Answers(Items[i])) :
    \E e \in EX(f1, f2) :
    \E up \in (IF r1 = "ok" \/ r2 = "ok" THEN {"ok", "fail"} ELSE {"none"}) :
    \E sc \in (IF up = "ok" THEN {"ok", "fail"} ELSE {"none"}) :
        MirrorStep(i, [flow1 |-> f1, r1 |-> r1, flow2 |-> f2, r2 |-> r2,
                       expires_in |-> e, would |-> "none", upload |-> up,
                       sidecar |-> sc])

\* the remote file is edited: new bytes, new eTag and modification time
RemoteEdit ==
    /\ \E i \in FileIds : \E v \in Versions \ {remoteVer[i]} :
           /\ ~Items[i].deleted
           /\ remoteVer' = [remoteVer EXCEPT ![i] = v]
    /\ UNCHANGED << cursorFile, store, token, token_expires_at, now, pc, delta_url,
                    data, idx, total_files, processed_files, errors, attempt, hist,
                    op, last, keyVars,
                    setup, tk, searchVars, otherVars >>

NextMirror == MirrorCall \/ RemoteEdit

SpecMirror == Init /\ [][NextMirror]_vars


\* ------------------------------------- one operation of a search client
\* (src/src/azure_search_setup.py, azure_search_integrated_vectorization.py)
\* what comes back for one request: a status and a body, or nothing at all
\* (requests raises a RequestException). A body is empty, JSON with or
\* without an "error" member, or text that is not JSON; the body of a 2xx
\* answer has no "error" member.
Statuses == {200, 201, 202, 204, 400, 404, 409, 503}
Is2xx(status) == status \in {200, 201, 202, 204}
Bodies(status) ==
    IF Is2xx(status) THEN {"empty", "json"}
    ELSE {"empty", "json", "json_error", "text"}
NoAnswer == [status |-> 0, body |-> "none"]
HttpAnswers == {NoAnswer} \cup UNION {{[status |-> st, body |-> b] : b \in Bodies(st)} :
                                        st \in Statuses}

\* the answer as AzureSearchIntegratedVectorization._make_request sees it:
\* its list of successes is [200, 201, 202, 204]
Classify(a) ==
    IF a = NoAnswer THEN "exc"
    ELSE IF a.status \in {200, 201, 202, 204} THEN "2xx"
    ELSE IF a.body = "json_error" THEN "err_json"
    ELSE IF a.body = "json" THEN "other_json"
    ELSE "text"

\* AzureSearchSetup._make_request: "raise" (SearchSetupError), "dict" (a
\* result without "error"), "dict_error" (a result with "error") or "None":
\* [200, 201, 204] give the body or {}, 404 gives {"error": ...}, any other
\* status goes to raise_for_status(), which raises from 400 on and returns
\* otherwise, and then the function ends without a return statement
legacy_make_request(a) ==
    IF a = NoAnswer THEN "raise"
    ELSE IF a.status \in {200, 201, 204} THEN "dict"
    ELSE IF a.status = 404 THEN "dict_error"
    ELSE IF a.status >= 400 THEN "raise"
    ELSE "None"

\* an operation of the legacy client: result = self._make_request(...);
\* if "error" in result: raise SearchSetupError(...); return result
legacy_operation(a) ==
    LET result == legacy_make_request(a)
    IN  IF result = "raise" THEN "SearchSetupError"
        ELSE IF result = "None" THEN "TypeError"
        ELSE IF result = "dict_error" THEN "SearchSetupError"
        ELSE "returned"

\* the same operation of the integrated client
integrated_operation(a) ==
    IF request_fails(Classify(a)) THEN "SearchSetupError" ELSE "returned"

\* client.op(...) answered by a, for the operations of the two clients that
\* send one request and test its result
Operation ==
    /\ \E client \in {"legacy", "integrated"} :
       \E o \in {"create_data_source", "create_skillset", "create_index",
                 "create_indexer", "run_indexer", "get_indexer_status"} :
       \E a \in HttpAnswers :
           cli' = [client |-> client, op |-> o, answer |-> a,
                   outcome |-> IF client = "legacy" THEN legacy_operation(a)
                               ELSE integrated_operation(a)]
    /\ UNCHANGED << engineVars, keyVars, setup, tk, searchVars, boot, cmd, rec >>

NextOperation == Operation

SpecOperation == Init /\ [][NextOperation]_vars


\* ------------------------------------------- composites, one after another
\* the names setup_complete_pipeline uses: the defaults of the legacy
\* client's create_* methods
default_names == [k \in Kinds |-> Name(k, "default")]

\* setup_complete_pipeline's requests: each create_* method of the legacy
\* client POSTs its definition to the collection (POST datasources, POST
\* skillsets, POST indexes, POST indexers)
setup_complete_pipeline_plan ==
    << Req("POST_TO_COLLECTION", default_names["datasource"], {}),
       Req("POST_TO_COLLECTION", default_names["skillset"], {}),
       Req("POST_TO_COLLECTION", default_names["index"], {}),
       Req("POST_TO_COLLECTION", default_names["indexer"],
           {default_names["datasource"], default_names["index"],
            default_names["skillset"]}) >>

\* The service's protocol, nothing refused that it can accept: PUT {name}
\* creates (201) or updates (204); POST to a collection creates (201) and is
\* refused when the name is in use; a run request is accepted (202) for an
\* existing indexer; a reference to a missing resource is refused.
ServiceAnswer(req, server) ==
    IF ~({n \in req.needs : Followed(n)} \subseteq server)
    THEN [status |-> IF req.method = "POST" THEN 404 ELSE 400, body |-> "json_error"]
    ELSE IF req.method = "PUT"
    THEN IF req.name \in server THEN [status |-> 204, body |-> "empty"]
         ELSE [status |-> 201, body |-> "json"]
    ELSE IF req.method = "POST_TO_COLLECTION"
    THEN IF req.name \in server THEN [status |-> 409, body |-> "json_error"]
         ELSE [status |-> 201, body |-> "json"]
    ELSE [status |-> 202, body |-> "empty"]

\* the composite calls: create_vertical(prefix, ...) with the same prefix,
\* and setup_complete_pipeline()
CompositeCalls ==
    {[op |-> "create_vertical", explicit |-> e, json |-> j] :
         e \in ExplicitChoices, j \in BOOLEAN}
    \cup {[op |-> "setup_complete_pipeline", explicit |-> {}, json |-> FALSE]}

Succeeded(call) == call.result \in {"started", "set_up"}

\* a composite is called; again: it repeats the call before it, which succeeded
StartComposite ==
    /\ vcall.result # "running"
    /\ \E c \in CompositeCalls :
           vcall' = [op |-> c.op,
                     step |-> 1,
                     plan |-> IF c.op = "create_vertical"
                              THEN create_vertical_plan(resolve_names(c.explicit), c.json)
                              ELSE setup_complete_pipeline_plan,
                     names |-> IF c.op = "create_vertical"
                               THEN resolve_names(c.explicit) ELSE default_names,
                     result |-> "running",
                     report |-> <<>>,
                     call |-> c,
                     again |-> IF vcall.op = "none" THEN FALSE
                               ELSE vcall.call = c /\ Succeeded(vcall)]
    /\ reqs' = <<>>
    /\ UNCHANGED << engineVars, keyVars, setup, tk, srv, otherVars >>

\* the next request of the composite. create_vertical lets the
\* SearchSetupError of a failed operation through; setup_complete_pipeline
\* catches every exception and returns its results with an "error" entry.
CompositeStep ==
    /\ vcall.op \in {"create_vertical", "setup_complete_pipeline"}
    /\ vcall.result = "running"
    /\ \E req \in {vcall.plan[vcall.step]} :
       \E a \in {ServiceAnswer(req, srv)} :
       \E outcome \in {IF vcall.op = "create_vertical" THEN integrated_operation(a)
                       ELSE legacy_operation(a)} :
           /\ reqs' = Append(reqs, [method |-> req.method, name |-> req.name,
                                    answer |-> a, existed |-> req.name \in srv])
           /\ srv' = Effect(req, Classify(a), srv)
           /\ vcall' = IF outcome # "returned"
                        THEN [vcall EXCEPT !.result =
                                 IF vcall.op = "create_vertical" THEN "raised"
                                 ELSE "error_entry"]
                        ELSE IF vcall.step = Len(vcall.plan)
                        THEN [vcall EXCEPT !.result =
                                 IF vcall.op = "create_vertical" THEN "started"
                                 ELSE "set_up"]
                        ELSE [vcall EXCEPT !.step = @ + 1]
    /\ UNCHANGED << engineVars, keyVars, setup, tk, otherVars >>

NextTwice == StartComposite \/ CompositeStep

SpecTwice == Init /\ [][NextTwice]_vars


\* ------------------------------------------------- configuration checks
\* (src/config/settings.py, the constructors, full_setup in src/main.py)
SharePointFields == {"tenant_id", "client_id", "site_id", "drive_id"}
StorageFields == {"az_storage_url", "az_container"}
SearchFields == {"search_service_name", "search_api_key", "search_endpoint"}
OpenAIFields == {"azure_openai_endpoint", "azure_openai_api_key"}
Fields == SharePointFields \cup StorageFields \cup SearchFields \cup OpenAIFields

\* A configuration cfg: cfg.present, the fields that are set to more than
\* blanks, and cfg.url_format_ok, whether az_storage_url, if set, is an
\* https://....blob.core.windows.net URL.

validate_sharepoint_config(cfg) == SharePointFields \subseteq cfg.present
validate_storage_config(cfg) == StorageFields \subseteq cfg.present /\ cfg.url_format_ok
validate_search_config(cfg) == SearchFields \subseteq cfg.present
validate_openai_config(cfg) == OpenAIFields \subseteq cfg.present

\* mutant: the storage access test runs before the configuration is checked
SharePointSync_init_TestsFirst(cfg, storage) ==
    IF storage # "ok" THEN [outcome |-> "raised", requests |-> 1]
    ELSE IF ~validate_sharepoint_config(cfg) \/ ~validate_storage_config(cfg)
    THEN [outcome |-> "raised", requests |-> 1]
    ELSE [outcome |-> "constructed", requests |-> 1]
\* SharePointSync.__init__: the two checks, then the credential, the blob
\* client and _test_storage_access, whose get_container_properties is the
\* constructor's one request (storage: what it answers)
SharePointSync_init(cfg, storage) ==
    IF ~validate_sharepoint_config(cfg) THEN [outcome |-> "raised", requests |-> 0]
    ELSE IF ~validate_storage_config(cfg) THEN [outcome |-> "raised", requests |-> 0]
    ELSE IF storage # "ok" THEN [outcome |-> "raised", requests |-> 1]
    ELSE [outcome |-> "constructed", requests |-> 1]

\* AzureSearchSetup.__init__ and AzureSearchIntegratedVectorization.__init__:
\* the two checks, then the headers; no request
SearchClient_init(cfg) ==
    IF ~validate_search_config(cfg) THEN [outcome |-> "raised", requests |-> 0]
    ELSE IF ~validate_openai_config(cfg) THEN [outcome |-> "raised", requests |-> 0]
    ELSE [outcome |-> "constructed", requests |-> 0]

\* full_setup up to the first request of Step 1: the four checks collect
\* their issues; with any issue the command exits with 1, otherwise it
\* constructs the legacy client and setup_complete_pipeline sends its first
\* request
full_setup_checks(cfg) ==
    LET config_issues ==
            (IF validate_sharepoint_config(cfg) THEN {} ELSE {"sharepoint"})
            \cup (IF validate_storage_config(cfg) THEN {} ELSE {"storage"})
            \cup (IF validate_search_config(cfg) THEN {} ELSE {"search"})
            \cup (IF validate_openai_config(cfg) THEN {} ELSE {"openai"})
    IN  IF config_issues # {}
        THEN [outcome |-> "exit_1", requests |-> 0]
        ELSE [outcome |-> "step_1",
              requests |-> SearchClient_init(cfg).requests + 1]

\* the .env file is edited: one setting is set or blanked, or the format of
\* the storage URL changes
EditConfig ==
    /\ \E cfg \in {[boot.config EXCEPT !.present = (@ \ {f}) \cup ({f} \ @)] : f \in Fields}
                 \cup {[boot.config EXCEPT !.url_format_ok = ~@]} :
           boot' = [NoBoot EXCEPT !.config = cfg]
    /\ UNCHANGED << engineVars, keyVars, setup, tk, searchVars, cli, cmd, rec >>

\* a component is constructed, or full_setup started, under the configuration
Construct ==
    /\ \E what \in {"SharePointSync", "AzureSearchSetup",
                     "AzureSearchIntegratedVectorization", "full_setup"} :
       \E cfg \in {boot.config} :
       \E storage \in (IF what = "SharePointSync" THEN {"ok", "fail"} ELSE {"none"}) :
       \E r \in {IF what = "SharePointSync" THEN SharePointSync_init(cfg, storage)
                 ELSE IF what = "full_setup" THEN full_setup_checks(cfg)
                 ELSE SearchClient_init(cfg)} :
           boot' = [what |-> what, config |-> cfg, storage |-> storage,
                    outcome |-> r.outcome, requests |-> r.requests]
    /\ UNCHANGED << engineVars, keyVars, setup, tk, searchVars, cli, cmd, rec >>

NextBoot == EditConfig \/ Construct

SpecBoot == Init /\ [][NextBoot]_vars


\* ------------------------------------------------ the run-indexer command
\* (_run_indexer_generic in src/main.py)
\* try: iv = AzureSearchIntegratedVectorization(); iv.run_indexer(name);
\*      return iv.get_indexer_status(name)
\* except Exception: legacy = AzureSearchSetup(); legacy.run_indexer(name);
\*      return legacy.get_indexer_status(name)
\* cmd.pc is the call the command stands before, cmd.sent the requests sent.

\* where an outcome of iv.get_indexer_status leads: any exception of the try
\* block goes to the except clause
AfterIntegratedStatus(outcome) ==
    IF outcome = "returned" THEN [pc |-> "done", outcome |-> "status"]
    ELSE [pc |-> "legacy_run", outcome |-> "none"]

\* the command starts; with an incomplete search configuration both
\* constructors raise and the command fails without a request
StartRunIndexer ==
    /\ cmd.pc \in {"none", "done"}
    /\ \E config_ok \in BOOLEAN :
           cmd' = IF config_ok
                  THEN [pc |-> "integrated_run", sent |-> <<>>, outcome |-> "none"]
                  ELSE [pc |-> "done", sent |-> <<>>, outcome |-> "SearchSetupError"]
    /\ UNCHANGED << engineVars, keyVars, setup, tk, searchVars, cli, boot, rec >>

\* iv.run_indexer(name)
IntegratedRun ==
    /\ cmd.pc = "integrated_run"
    /\ \E a \in HttpAnswers : \E outcome \in {integrated_operation(a)} :
           cmd' = [pc |-> IF outcome = "returned" THEN "integrated_status" ELSE "legacy_run",
                   sent |-> Append(cmd.sent,
                                   [client |-> "integrated", op |-> "run_indexer",
                                    answer |-> a, outcome |-> outcome]),
                   outcome |-> "none"]
    /\ UNCHANGED << engineVars, keyVars, setup, tk, searchVars, cli, boot, rec >>

\* iv.get_indexer_status(name)
IntegratedStatus ==
    /\ cmd.pc = "integrated_status"
    /\ \E a \in HttpAnswers : \E outcome \in {integrated_operation(a)} :
       \E next \in {AfterIntegratedStatus(outcome)} :
           cmd' = [pc |-> next.pc,
                   sent |-> Append(cmd.sent,
                                   [client |-> "integrated", op |-> "get_indexer_status",
                                    answer |-> a, outcome |-> outcome]),
                   outcome |-> next.outcome]
    /\ UNCHANGED << engineVars, keyVars, setup, tk, searchVars, cli, boot, rec >>

\* legacy.run_indexer(name): its exception leaves the command
LegacyRun ==
    /\ cmd.pc = "legacy_run"
    /\ \E a \in HttpAnswers : \E outcome \in {legacy_operation(a)} :
           cmd' = [pc |-> IF outcome = "returned" THEN "legacy_status" ELSE "done",
                   sent |-> Append(cmd.sent,
                                   [client |-> "legacy", op |-> "run_indexer",
                                    answer |-> a, outcome |-> outcome]),
                   outcome |-> IF outcome = "returned" THEN "none" ELSE outcome]
    /\ UNCHANGED << engineVars, keyVars, setup, tk, searchVars, cli, boot, rec >>

\* legacy.get_indexer_status(name)
LegacyStatus ==
    /\ cmd.pc = "legacy_status"
    /\ \E a \in HttpAnswers : \E outcome \in {legacy_operation(a)} :
           cmd' = [pc |-> "done",
                   sent |-> Append(cmd.sent,
                                   [client |-> "legacy", op |-> "get_indexer_status",
                                    answer |-> a, outcome |-> outcome]),
                   outcome |-> IF outcome = "returned" THEN "status" ELSE outcome]
    /\ UNCHANGED << engineVars, keyVars, setup, tk, searchVars, cli, boot, rec >>

NextRunIndexer ==
    StartRunIndexer \/ IntegratedRun \/ IntegratedStatus \/ LegacyRun \/ LegacyStatus

SpecRunIndexer == Init /\ [][NextRunIndexer]_vars


\* ------------------------------------------------- vertical recommender
\* (src/vertical_recommender.py)
\* how many files a tallied directory may hold
MaxFiles == 10

\* some extensions of each category; ".html" is listed under CODE and under
\* DOCUMENTS
Extensions(cat) ==
    IF cat = "CODE" THEN {".py", ".html"}
    ELSE IF cat = "DOCUMENTS" THEN {".pdf", ".html"}
    ELSE IF cat = "STRUCTURED" THEN {".json"}
    ELSE IF cat = "SPREADSHEETS" THEN {".csv"}
    ELSE {".png"}
\* ALL_KNOWN_EXTS = {ext: cat for cat, spec in CATEGORIES.items() for ext in
\* spec["extensions"]}: an extension listed twice keeps the later category
RECURSIVE AllKnownExts(_, _)
AllKnownExts(ext, k) ==
    IF k = 0 THEN "UNKNOWN"
    ELSE IF ext \in Extensions(CATEGORIES[k]) THEN CATEGORIES[k]
    ELSE AllKnownExts(ext, k - 1)

\* categorize_extension: ext = ext.lower(), then
\* ALL_KNOWN_EXTS.get(ext, "UNKNOWN")
categorize_extension(ext) ==
    AllKnownExts(IF ext = ".PDF" THEN ".pdf" ELSE ext, Len(CATEGORIES))

\* mutant: equal counts end up in reverse order (an ascending sort, reversed)
InsertDesc_TiesReversed(counts, cat, sorted) ==
    LET before == SelectSeq(sorted, LAMBDA c : counts[c] > counts[cat])
        after == SelectSeq(sorted, LAMBDA c : counts[c] <= counts[cat])
    IN  before \o <<cat>> \o after
\* sorted(..., key=count, reverse=True) is stable: an entry goes behind the
\* entries before it whose count is not smaller
InsertDesc(counts, cat, sorted) ==
    LET before == SelectSeq(sorted, LAMBDA c : counts[c] >= counts[cat])
        after == SelectSeq(sorted, LAMBDA c : counts[c] < counts[cat])
    IN  before \o <<cat>> \o after

RECURSIVE SortedDesc(_, _)
SortedDesc(counts, k) ==
    IF k = 0 THEN <<>>
    ELSE InsertDesc(counts, CATEGORIES[k], SortedDesc(counts, k - 1))

RECURSIVE SumCounts(_, _)
SumCounts(counts, cats) ==
    IF cats = {} THEN 0
    ELSE LET c == CHOOSE x \in cats : TRUE
         IN  counts[c] + SumCounts(counts, cats \ {c})

\* choose_vertical(counts): the category and the confidence in hundredths.
\* share = top.count / total compared with 0.9, 0.75 and 0.6
choose_vertical(counts) ==
    LET total == SumCounts(counts, DOMAIN counts)
        sorted_cats == SortedDesc(counts, Len(CATEGORIES))
        top == sorted_cats[1]
    IN  IF total = 0 THEN [category |-> "UNKNOWN", confidence |-> 0]
        ELSE IF counts[top] = 0 THEN [category |-> "UNKNOWN", confidence |-> 10]
        ELSE IF 10 * counts[top] >= 9 * total THEN [category |-> top, confidence |-> 95]
        ELSE IF 4 * counts[top] >= 3 * total THEN [category |-> top, confidence |-> 85]
        ELSE IF 5 * counts[top] >= 3 * total THEN [category |-> top, confidence |-> 70]
        ELSE [category |-> top, confidence |-> 50]

\* one turn of the loop of tally_files: the next file of the directory, with
\* one of the suffixes a file may have
TallyFile ==
    /\ rec.files < MaxFiles
    /\ \E suffix \in {".py", ".html", ".pdf", ".PDF", ".json", ".csv", ".png", ".bin", ""} :
           rec' = [counts |-> [rec.counts EXCEPT ![categorize_extension(suffix)] = @ + 1],
                   files |-> rec.files + 1,
                   result |-> NoChoice]
    /\ UNCHANGED << engineVars, keyVars, setup, tk, searchVars, cli, boot, cmd >>

\* choose_vertical(counts) on the tally
ChooseVertical ==
    /\ rec.result = NoChoice
    /\ rec' = [rec EXCEPT !.result = choose_vertical(rec.counts)]
    /\ UNCHANGED << engineVars, keyVars, setup, tk, searchVars, cli, boot, cmd >>

NextRecommend == TallyFile \/ ChooseVertical

SpecRecommend == Init /\ [][NextRecommend]_vars


\* ================================================================ claims
\* the files of the pages fetched so far in the run have all been mirrored
\* or recorded as failed, in feed order
AllSettled(h) ==
    /\ Len(h.settled) = Len(h.listed)
    /\ \A k \in 1..Len(h.listed) : h.settled[k].item = h.listed[k]

\* the failures among the settled items, as the messages of the summary
RECURSIVE FailureMessages(_)
FailureMessages(settled) ==
    IF settled = <<>> THEN <<>>
    ELSE IF settled[1].ok THEN FailureMessages(Tail(settled))
    ELSE <<ItemFailed(settled[1].item)>> \o FailureMessages(Tail(settled))

RunReturned == pc = "done"

\* C1: the cursor file changes only at the end of a page that carries a
\* deltaLink, after every file of that page and of the earlier pages of the
\* run has been mirrored or recorded as failed, and what is written is that
\* deltaLink (a write that fails leaves the file unreadable, never holding
\* another cursor).
C1_CursorOnlyAfterTerminalPage ==
    [][cursorFile' # cursorFile =>
          /\ pc = "items" /\ idx > Len(data.value)
          /\ data = FeedPage(hist.fetched[Len(hist.fetched)])
          /\ data.deltaLink # 0
          /\ cursorFile' \in {CursorJson(data.deltaLink), CorruptFile}
          /\ AllSettled(hist)]_vars

\* a run has written the terminal cursor of its second page after settling
\* the files of both pages
C1_Witness ==
    /\ RunReturned
    /\ Len(hist.fetched) = 2
    /\ Len(hist.settled) = 2
    /\ hist.saved = "ok"
    /\ cursorFile = CursorJson(data.deltaLink)
    /\ cursorFile # hist.startFile

\* C2: a run aborted by a page fetch that exhausted its retries leaves the
\* cursor file as the run found it.
C2_AbortKeepsCursor ==
    (RunReturned /\ hist.aborted) => cursorFile = hist.startFile

\* a run aborted after a page was fetched and its files processed
C2_Witness ==
    /\ RunReturned /\ hist.aborted
    /\ Len(hist.fetched) >= 1
    /\ Len(hist.settled) >= 1
    /\ op.kind = "page" /\ op.attempt = StopAfterAttempt

C3_WitnessClean ==
    /\ RunReturned /\ ~hist.aborted
    /\ total_files >= 1 /\ errors = <<>>
    /\ cursorFile = CursorJson(data.deltaLink)

C5_CursorMonotone ==
    (RunReturned /\ ~hist.aborted /\ hist.startFile.st = "ok") =>
        /\ cursorFile.st = "ok"
        /\ cursorFile.delta_url >= hist.startFile.delta_url


\* what a mirrored file's primary blob and sidecar must hold for inputs (i, v)
ExpectedBlob(i, v) ==
    [kind |-> "blob", content |-> [item |-> i, bytes |-> v],
     metadata |-> [sp_item_id |-> i, sp_etag |-> v, sp_file_name |-> Items[i].name]]
ExpectedSidecar(i, v, key) ==
    [kind |-> "sidecar",
     content |-> [name |-> Items[i].name, lastModified |-> v, blobKey |-> key],
     metadata |-> 0]
JsonKey(key) == key \o <<".json">>

\* C6: a successful mirror call leaves, under the derived key, the primary
\* blob of that call's inputs and, when its sidecar upload went through, the
\* sidecar of that call's inputs under key + ".json"; it touches no other
\* key, adds no key when both existed, and repeated with identical inputs
\* it leaves the store exactly as the first call left it.
C6_MirrorOverwrites ==
    (last.item # 0 /\ last.success) =>
        LET key == last.blob_key
            skey == JsonKey(last.blob_key)
        IN  /\ key \in DOMAIN store
            /\ store[key] = ExpectedBlob(last.item, last.ver)
            /\ last.sidecar = "ok" =>
                  /\ skey \in DOMAIN store
                  /\ store[skey] = ExpectedSidecar(last.item, last.ver, key)
            /\ DOMAIN last.before \subseteq DOMAIN store
            /\ DOMAIN store \subseteq DOMAIN last.before \cup {key, skey}
            /\ \A k \in DOMAIN last.before \ {key, skey} : store[k] = last.before[k]
            /\ ({key, skey} \subseteq DOMAIN last.before) =>
                  DOMAIN store = DOMAIN last.before
            /\ ( /\ {key, skey} \subseteq DOMAIN last.before
                 /\ last.before[key] = ExpectedBlob(last.item, last.ver)
                 /\ last.before[skey] = ExpectedSidecar(last.item, last.ver, key) ) =>
                  store = last.before

\* the same file mirrored a second time with identical inputs, both uploads
\* of the second call succeeding
C6_Witness ==
    /\ last.item # 0 /\ last.success /\ last.sidecar = "ok"
    /\ {last.blob_key, JsonKey(last.blob_key)} \subseteq DOMAIN last.before
    /\ last.before[last.blob_key] = ExpectedBlob(last.item, last.ver)
    /\ last.before[JsonKey(last.blob_key)] =
           ExpectedSidecar(last.item, last.ver, last.blob_key)
    /\ store = last.before

\* the key the specification describes: drive prefix dropped, separators
\* trimmed, joined by one separator, every doubled separator collapsed
RECURSIVE CollapseSeps(_)
CollapseSeps(s) ==
    IF Len(s) < 2 THEN s
    ELSE IF s[1] = SEP /\ s[2] = SEP THEN CollapseSeps(Tail(s))
    ELSE <<s[1]>> \o CollapseSeps(Tail(s))
SpecifiedKey(path, name) ==
    LET rel == StripSep(AfterLastColon(path))
    IN  IF rel = <<>> THEN name ELSE CollapseSeps(rel \o <<SEP>> \o name)
NoDoubleSep(s) == \A k \in 1..(Len(s) - 1) : ~(s[k] = SEP /\ s[k + 1] = SEP)

\* C7: the derived key is the specified key and holds no doubled separator
C7_KeyAsSpecified ==
    kpc = "returned" =>
        /\ ret_blob_key = SpecifiedKey(arg_parent_path, arg_file_name)
        /\ NoDoubleSep(ret_blob_key)

\* the device flows started by the step just taken
StepFlows ==
    IF (pc = "fetch" /\ (pc' # "fetch" \/ attempt' # attempt))
       \/ hist'.settled # hist.settled
    THEN op'.flows ELSE 0

\* C8: once token acquisition has failed in a run, the run processes no
\* further item, starts no further device flow and writes no cursor.
C8_AuthErrorFatal ==
    [][(hist.authFailed /\ hist'.authFailed) =>
          /\ StepFlows = 0
          /\ hist'.settled = hist.settled
          /\ cursorFile' = cursorFile]_vars

\* C9, attempt by attempt: within one attempt a 401 clears the cache, starts one
\* device flow and, if that yields a token, re-sends once; a 401 to the
\* re-send fails the attempt without another refresh or re-send; the re-send
\* takes nothing from the attempts of the backoff budget.
C9_One401RetryPerAttempt ==
    op.kind # "none" =>
        /\ op.refreshes = (IF op.r1 = "401" THEN 1 ELSE 0)
        /\ op.sends = (IF op.r1 = "none" THEN 0 ELSE IF op.r2 = "none" THEN 1 ELSE 2)
        /\ op.r2 # "none" => op.r1 = "401"
        /\ op.flows = (IF op.cached THEN 0 ELSE 1) + (IF op.r1 = "401" THEN 1 ELSE 0)
        /\ (op.r1 = "401" /\ op.r2 = "none") =>
              /\ op.outcome = "auth"
              /\ token = FALSE /\ token_expires_at = 0 /\ token_expires_at < now
        /\ (op.r1 = "401" /\ op.r2 # "none") => token = TRUE
        /\ op.r2 = "401" => op.outcome = "http"
        /\ op.attempt <= StopAfterAttempt
        /\ op.opSends <= 2 * op.attempt
        /\ op.opRefreshes <= op.attempt
        /\ op.kind = "bytes" => op.attempt = 1

\* a page fetch whose three attempts each were answered 401 twice: six
\* requests, three refreshes
C9_Witness ==
    /\ op.kind = "page" /\ op.attempt = StopAfterAttempt
    /\ op.r1 = "401" /\ op.r2 = "401"
    /\ op.opSends = 2 * StopAfterAttempt
    /\ op.opRefreshes = StopAfterAttempt

\* C9 as stated: after a second 401 (on the re-send) the same page fetch
\* sends no further request and refreshes the token no further
C9_AsStated ==
    [][(pc = "fetch" /\ op.kind = "page" /\ op.r1 = "401" /\ op.r2 = "401"
        /\ op'.kind = "page" /\ op'.attempt # op.attempt) =>
          (op'.sends = 0 /\ op'.refreshes = 0)]_vars

\* C10: a byte fetch that fails once and would succeed when tried again
\* succeeds
C10_DownloadRetried ==
    (op.kind = "bytes" /\ op.r1 = "err" /\ op.would = "ok") => op.outcome = "ok"


\* the requests of an uninterrupted run that starts at url
RECURSIVE Traversal(_)
Traversal(url) ==
    IF FeedPage(url).deltaLink # 0 \/ FeedPage(url).nextLink = NoUrl
    THEN <<url>>
    ELSE <<url>> \o Traversal(FeedPage(url).nextLink)
FirstUrl(c) == IF c = 0 THEN Url(0, 1) ELSE Url(c, 1)
StartCursor(h) == IF h.startFile.st = "ok" THEN h.startFile.delta_url ELSE 0
ItemKey(i) == get_safe_blob_key(Items[i].path, Items[i].name)

AbortedFrom(c) == RunReturned /\ hist.aborted /\ StartCursor(hist) = c

\* a run from cursor c went through the whole traversal, attempted every
\* file, issued the write of the terminal cursor, and the store holds what
\* it mirrored
CompletedFrom(c) ==
    /\ RunReturned /\ ~hist.aborted /\ StartCursor(hist) = c
    /\ hist.fetched = Traversal(FirstUrl(c))
    /\ AllSettled(hist)
    /\ hist.saved # "none"
    /\ hist.saved = "ok" => cursorFile = CursorJson(TerminalOf(c))
    /\ \A k \in 1..Len(hist.settled) :
          hist.settled[k].ok => ItemKey(hist.settled[k].item) \in DOMAIN store

IsFetchAttempt == pc = "fetch" /\ op' # op

\* C11: a page fetch makes at most three attempts: an attempt that fails
\* before the third is followed by another attempt on the same URL, an
\* attempt that succeeds (the third included) hands the page to the item
\* loop, and the failure of the third ends the run with the failure
\* recorded and no further attempt.
C11_ThreeAttempts ==
    [][IsFetchAttempt =>
          /\ attempt \in 1..StopAfterAttempt
          /\ op'.kind = "page" /\ op'.attempt = attempt
          /\ IF op'.outcome = "ok"
             THEN /\ pc' = "items" /\ idx' = 1
                  /\ data' = FeedPage(delta_url)
                  /\ ~hist'.aborted
                  /\ errors' = errors
             ELSE IF attempt < StopAfterAttempt
             THEN /\ pc' = "fetch" /\ attempt' = attempt + 1
                  /\ delta_url' = delta_url
                  /\ ~hist'.aborted
             ELSE /\ pc' = "done" /\ hist'.aborted
                  /\ errors' = Append(errors, SyncFailed)]_vars

\* the third attempt of a page fetch succeeded and the loop stands at the
\* first entry of its page
C11_Witness ==
    /\ pc = "items" /\ idx = 1
    /\ op.kind = "page" /\ op.attempt = StopAfterAttempt /\ op.outcome = "ok"
    /\ Len(data.value) >= 1

\* C12: when a page fetch has exhausted its retries, the failure is not an
\* entry of a returned summary but reaches the command that called the sync,
\* which exits with a non-zero status and does not start the indexer.
C12_FetchFailurePropagates ==
    (setup.pc = "exited" /\ hist.aborted) =>
        /\ setup.exit_status # 0
        /\ setup.indexer_runs = 0
        /\ \A k \in 1..Len(errors) : errors[k] # SyncFailed


\* a token is cached and the clock has not reached the expiry of its grant
\* less the margin
CachedAndFresh == token /\ now < tk.lease_from + tk.lease - SafetyMargin

\* C13: a get_token call starts a device flow exactly when no token is cached
\* or the clock has reached the cached token's expiry less the 5-minute
\* margin; any other call returns the cached token, takes no time on the
\* network and leaves the token and its expiry as they were.
C13_TokenCache ==
    [][tk'.seq # tk.seq =>
          /\ tk'.flows = (IF CachedAndFresh THEN 0 ELSE 1)
          /\ CachedAndFresh =>
                /\ tk'.ok /\ tk'.ret = token
                /\ token' = token
                /\ token_expires_at' = token_expires_at
                /\ now' = now
                /\ tk'.lease_from = tk.lease_from /\ tk'.lease = tk.lease]_vars

\* a call one second before the margin of the cached token was reached, which
\* returned that token without a device flow
C13_Witness ==
    /\ tk.flows = 0 /\ tk.ok /\ tk.ret = TRUE
    /\ tk.lease = DefaultExpiresIn
    /\ tk.at = tk.lease_from + tk.lease - SafetyMargin - 1


\* C14: no step of the sync takes a key out of the content store.
C14_NeverDeletes ==
    [][DOMAIN store \subseteq DOMAIN store']_vars

\* a later run went through the entry of a deleted file, and the blobs and
\* sidecars mirrored before are all still there
C14_Witness ==
    /\ RunReturned /\ ~hist.aborted
    /\ hist.startFile.st = "ok"
    /\ \E k \in 1..Len(hist.settled) : Items[hist.settled[k].item].deleted
    /\ \A i \in {2, 3} :
          {ItemKey(i), sidecar_key(ItemKey(i))} \subseteq DOMAIN store


\* the entry the item loop stands at, and the steps that pass it
AtEntry == pc = "items" /\ idx <= Len(data.value)
PassesFolder == AtEntry /\ Items[data.value[idx]].folder /\ idx' = idx + 1
PassesFile == AtEntry /\ ~Items[data.value[idx]].folder /\ idx' = idx + 1
\* the keys whose content a step changes or creates
KeysTouched == {k \in DOMAIN store' : k \notin DOMAIN store \/ store'[k] # store[k]}
FilesOnPage(page) == Cardinality({k \in 1..Len(page.value) : ~Items[page.value[k]].folder})

\* C15 (as amended): a folder entry is passed without a download, a write or
\* a count; a fetched page adds the number of its file entries to the total;
\* the store changes only in the mirror of a file entry, which writes the
\* derived key of that entry exactly if its primary upload succeeded, the
\* sidecar key exactly if the sidecar upload succeeded too, and no other key.
C15_FoldersNeverMirrored ==
    [][/\ PassesFolder =>
            /\ store' = store /\ op' = op /\ last' = last
            /\ total_files' = total_files /\ processed_files' = processed_files
            /\ errors' = errors /\ hist' = hist
       /\ (pc = "fetch" /\ pc' = "items") =>
            total_files' = total_files + FilesOnPage(data')
       /\ store' # store => PassesFile
       /\ PassesFile =>
            LET i == data.value[idx]
                key == ItemKey(i)
            IN  /\ hist'.settled = Append(hist.settled, [item |-> i, ok |-> last'.success])
                /\ KeysTouched \subseteq {key, sidecar_key(key)}
                /\ IF last'.upload = "ok"
                   THEN /\ last'.success
                        /\ key \in DOMAIN store'
                        /\ store'[key] = ExpectedBlob(i, remoteVer[i])
                        /\ IF last'.sidecar = "ok"
                           THEN /\ sidecar_key(key) \in DOMAIN store'
                                /\ store'[sidecar_key(key)] =
                                       ExpectedSidecar(i, remoteVer[i], key)
                           ELSE KeysTouched \subseteq {key}
                   ELSE ~last'.success /\ store' = store]_vars

\* a run has passed the folder entry of its first page and mirrored the
\* file entry after it, and counts one file on that page
C15_Witness ==
    /\ pc = "items" /\ idx = 3
    /\ data.value = <<1, 2>>
    /\ total_files = 1 /\ processed_files = 1
    /\ DOMAIN store = {ItemKey(2), sidecar_key(ItemKey(2))}

\* C15 as stated: every file entry whose mirror was attempted has its derived
\* key and its sidecar key written
C15_AsStated ==
    [][PassesFile =>
          {ItemKey(data.value[idx]), sidecar_key(ItemKey(data.value[idx]))}
              \subseteq DOMAIN store']_vars


\* the first request of the current run, and whether the run found a cursor
FirstRequest == IF hist.fetched # <<>> THEN hist.fetched[1] ELSE delta_url
RootRequest == Url(0, 1)
FoundCursor == hist.startFile.st = "ok" /\ hist.startFile.delta_url # 0

\* C16: the first request of a run is the root folder's delta request exactly
\* if the run found no cursor (no file, an unreadable file, or no non-empty
\* delta_url in it); otherwise it is the stored cursor, and the run never
\* issues the root folder's request.
C16_FirstRequest ==
    pc \in {"fetch", "items", "done"} =>
        /\ (FirstRequest = RootRequest) <=> ~FoundCursor
        /\ FoundCursor =>
              /\ FirstRequest = Url(hist.startFile.delta_url, 1)
              /\ \A k \in 1..Len(hist.fetched) : hist.fetched[k] # RootRequest
              /\ pc = "fetch" => delta_url # RootRequest

\* a run that found the cursor 1 stored has fetched its page and returned
C16_Witness ==
    /\ RunReturned
    /\ hist.startFile = CursorJson(1)
    /\ hist.fetched = <<Url(1, 1)>>


\* C17: a file whose primary upload succeeds and whose sidecar upload fails
\* is a success of the loop: counted in processed, no entry in errors, its
\* primary blob stored and nothing written under its sidecar key; and when
\* the mirror of a file fails, nothing is written under its sidecar key.
C17_SidecarBestEffort ==
    [][PassesFile =>
          LET i == data.value[idx]
              skey == sidecar_key(ItemKey(i))
          IN  /\ (last'.upload = "ok" /\ last'.sidecar = "fail") =>
                    /\ last'.success
                    /\ processed_files' = processed_files + 1
                    /\ errors' = errors
                    /\ hist'.settled = Append(hist.settled, [item |-> i, ok |-> TRUE])
                    /\ store'[ItemKey(i)] = ExpectedBlob(i, remoteVer[i])
                    /\ skey \notin KeysTouched
              /\ last'.sidecar # "none" => last'.upload = "ok"
              /\ ~last'.success =>
                    /\ skey \notin KeysTouched
                    /\ processed_files' = processed_files
                    /\ errors' = Append(errors, ItemFailed(i))]_vars

\* the first file of a run was uploaded, its sidecar upload failed, and the
\* run counts it as processed without an error
C17_Witness ==
    /\ pc = "items"
    /\ last.item = 2 /\ last.upload = "ok" /\ last.sidecar = "fail" /\ last.success
    /\ processed_files = 1 /\ errors = <<>>
    /\ DOMAIN store = {ItemKey(2)}


\* the kinds in the order create_vertical upserts them, and in the order
\* delete_vertical deletes them
CreateOrder == << "datasource", "index", "skillset", "indexer" >>
DeleteOrder == << "indexer", "skillset", "index", "datasource" >>

\* C18: create_vertical sends PUT data source, PUT index, PUT skillset, PUT
\* indexer and the run request in this order, each only after every earlier
\* request was answered with success, and returns the resolved names when
\* all were.
C18_CreateInOrder ==
    vcall.op = "create_vertical" =>
        /\ \A n \in 1..Len(reqs) :
              /\ n <= 4 => /\ reqs[n].method = "PUT"
                           /\ reqs[n].name = vcall.names[CreateOrder[n]]
              /\ n = 5 => /\ reqs[n].method = "POST"
                          /\ reqs[n].name = vcall.names["indexer"]
              /\ \A k \in 1..(n - 1) : reqs[k].answer = "2xx"
        /\ vcall.result = "started" =>
              /\ Len(reqs) >= 5
              /\ \A n \in 1..Len(reqs) : reqs[n].answer = "2xx"

\* C19: delete_vertical sends its DELETE requests for the indexer, the
\* skillset, the index and the data source in this order; whatever the
\* answers, it goes on to the next one, returns after the fourth, and raises
\* only for an unusable prefix, before any request.
C19_DeleteAllInOrder ==
    vcall.op = "delete_vertical" =>
        /\ Len(reqs) <= 4
        /\ \A n \in 1..Len(reqs) :
              /\ reqs[n].method = "DELETE"
              /\ reqs[n].name = Name(DeleteOrder[n], "prefix")
        /\ vcall.result = "raised" => reqs = <<>>
        /\ vcall.result = "running" => Len(reqs) < 4 /\ vcall.step = Len(reqs) + 1
        /\ vcall.result = "returned" => Len(reqs) = 4

\* the call returned after four requests of which the first got no answer
\* and the second was refused
C19_Witness ==
    /\ vcall.op = "delete_vertical" /\ vcall.result = "returned"
    /\ Len(reqs) = 4
    /\ reqs[1].answer = "exc" /\ reqs[2].answer = "err_json"
    /\ reqs[3].answer = "2xx"

\* C20: in the report of a returned delete_vertical, a resource is deleted
\* only if its DELETE was answered with success, every resource the service
\* deleted is reported deleted, and a resource that was absent (and whose
\* request was answered) is reported skipped.
C20_ReportReflectsAnswers ==
    (vcall.op = "delete_vertical" /\ vcall.result = "returned") =>
        \A n \in 1..Len(reqs) :
            LET e == vcall.report[reqs[n].name.kind]
            IN  /\ e.deleted => reqs[n].answer = "2xx"
                /\ reqs[n].answer = "2xx" => (e.deleted /\ e.status = "deleted")
                /\ (~reqs[n].existed /\ reqs[n].answer # "exc") =>
                       (~e.deleted /\ e.status = "skipped")


\* C21: an operation of a search client that got an answer fails with
\* SearchSetupError if the status is not 2xx, whatever the body, and returns
\* normally if it is 2xx (202 to a run request included).
C21_FailsIffNon2xx ==
    (cli.client # "none" /\ cli.answer # NoAnswer) =>
        IF Is2xx(cli.answer.status)
        THEN cli.outcome = "returned"
        ELSE cli.outcome = "SearchSetupError"


\* C22: a composite that repeats the successful call before it succeeds
\* too: none of its upserts of an existing resource is refused, and when it
\* has returned every resolved name exists on the service.
C22_IdempotentByName ==
    (vcall.op \in {"create_vertical", "setup_complete_pipeline"} /\ vcall.again) =>
        /\ vcall.result \in {"running", "started", "set_up"}
        /\ \A n \in 1..Len(reqs) : Is2xx(reqs[n].answer.status)
        /\ Succeeded(vcall) => \A k \in Kinds : vcall.names[k] \in srv


\* the settings a component requires
Required(what) ==
    IF what = "SharePointSync" THEN SharePointFields \cup StorageFields
    ELSE IF what = "full_setup" THEN Fields
    ELSE SearchFields \cup OpenAIFields

\* C23: a component constructed with one of its required settings missing
\* fails, and full_setup started with any required setting missing exits
\* with a non-zero status, in both cases without a request having been sent.
C23_ConfigErrorsFirst ==
    (boot.what # "none" /\ ~(Required(boot.what) \subseteq boot.config.present)) =>
        /\ boot.outcome = (IF boot.what = "full_setup" THEN "exit_1" ELSE "raised")
        /\ boot.requests = 0

\* SharePointSync was constructed without a storage URL while the storage
\* service could not have been reached either
C23_Witness ==
    /\ boot.what = "SharePointSync"
    /\ boot.config.present = Fields \ {"az_storage_url"}
    /\ boot.storage = "fail"
    /\ boot.outcome = "raised" /\ boot.requests = 0


Running == pc \in {"fetch", "items"}
\* no page of the run was requested after a page that carries a deltaLink
StopsAtTerminalPage ==
    /\ \A k \in 1..(Len(hist.fetched) - 1) : ~HasDeltaLink(FeedPage(hist.fetched[k]))
    /\ (pc = "fetch" /\ hist.fetched # <<>>) =>
           ~HasDeltaLink(FeedPage(hist.fetched[Len(hist.fetched)]))

\* C24: a run requests no page after one that carries a deltaLink, whether
\* or not that page carries a nextLink too, and every run, each of whose
\* calls returns or fails, returns its summary.
C24_Terminates ==
    /\ []StopsAtTerminalPage
    /\ Running ~> RunReturned

\* a run returned after its second page, which carries a deltaLink and a
\* nextLink
C24_Witness ==
    /\ RunReturned /\ ~hist.aborted
    /\ hist.fetched = <<Url(0, 1), Url(0, 2)>>
    /\ HasDeltaLink(FeedPage(Url(0, 2)))
    /\ FeedPage(Url(0, 2)).nextLink # NoUrl
    /\ delta_url = FeedPage(Url(0, 2)).nextLink


\* the last page the run fetched
LastFetched == FeedPage(hist.fetched[Len(hist.fetched)])

\* C25: when a run has returned a summary without errors, the cursor file
\* holds the deltaLink of the last page the run fetched.
C25_CleanRunPersistsCursor ==
    (RunReturned /\ hist.fetched # <<>> /\ errors = <<>>) =>
        /\ HasDeltaLink(LastFetched)
        /\ cursorFile = CursorJson(final_delta_url(LastFetched))


\* the step in which the run's save_delta_state failed
SaveFailed ==
    /\ pc = "items" /\ idx > Len(data.value) /\ pc' = "done"
    /\ hist'.saved \in SaveOutcome \ {"ok"}

\* C26: after a save_delta_state that failed, load_delta_state returns the
\* cursor it returned before.
C26_AtomicCursorWrite ==
    [][SaveFailed => load_delta_state(cursorFile') = load_delta_state(cursorFile)]_vars


\* the key of file i holds a primary blob in st
HoldsPrimary(st, i) == ItemKey(i) \in DOMAIN st /\ st[ItemKey(i)].kind = "blob"

\* C27: the keys of every two files being distinct, no step replaces the
\* primary blob of a mirrored file by a sidecar: what a file's key holds
\* after a step is still a primary blob with that file's bytes.
C27_SidecarNeverOverwritesPrimary ==
    [][\A i \in FileIds :
          (HoldsPrimary(store, i) /\ \A j \in FileIds \ {i} : ItemKey(j) # ItemKey(i)) =>
              /\ HoldsPrimary(store', i)
              /\ store'[ItemKey(i)].content.item = i]_vars


\* the file entries of the pages the run has fetched, page by page
RECURSIVE FilesFetched(_)
FilesFetched(urls) ==
    IF urls = <<>> THEN 0
    ELSE FilesOnPage(FeedPage(urls[1])) + FilesFetched(Tail(urls))

\* C28: at every point of a run processed_files <= total_files, and
\* total_files is the number of file entries of the pages fetched so far;
\* when the run has returned, processed_files plus the number of errors is
\* total_files, or total_files + 1 if the run was aborted, the extra entry
\* being the abort message at the end of the list.
C28_SummaryAccounting ==
    /\ processed_files <= total_files
    /\ processed_files + Len(errors) <= total_files + 1
    /\ total_files = FilesFetched(hist.fetched)
    /\ RunReturned =>
          /\ processed_files + Len(errors) =
                 total_files + (IF hist.aborted THEN 1 ELSE 0)
          /\ hist.aborted <=> (errors # <<>> /\ errors[Len(errors)] = SyncFailed)
          /\ \A k \in 1..(Len(errors) - 1) : errors[k] # SyncFailed

\* a run aborted at its second page after the one file of its first page
\* had failed: one file, none processed, two errors
C28_Witness ==
    /\ RunReturned /\ hist.aborted
    /\ hist.fetched = <<Url(0, 1)>>
    /\ total_files = 1 /\ processed_files = 0
    /\ errors = <<ItemFailed(2), SyncFailed>>


\* the run requests the command has sent
RunRequests == SelectSeq(cmd.sent, LAMBDA r : r.op = "run_indexer")

\* C29: the command sends a second run request only if the run request of
\* the integrated client failed, and the service accepts at most one run
\* request of one command.
C29_RunsAtMostOnce ==
    /\ Len(RunRequests) <= 2
    /\ Len(RunRequests) = 2 =>
          /\ RunRequests[1].client = "integrated"
          /\ RunRequests[1].outcome # "returned"
    /\ Cardinality({k \in 1..Len(RunRequests) : Is2xx(RunRequests[k].answer.status)}) <= 1


\* the position of a category among the known ones
Position(cat) == CHOOSE k \in 1..Len(CATEGORIES) : CATEGORIES[k] = cat
\* the known category with the largest count, the earliest among equals
Largest(counts) ==
    CHOOSE c \in Known :
        \A d \in Known :
            \/ counts[d] < counts[c]
            \/ counts[d] = counts[c] /\ Position(c) <= Position(d)
\* the confidence for count files of total, in hundredths
ConfidenceFor(count, total) ==
    IF count * 100 >= 90 * total THEN 95
    ELSE IF count * 100 >= 75 * total THEN 85
    ELSE IF count * 100 >= 60 * total THEN 70
    ELSE 50

\* C30: the counts of a tally add up to the number of files tallied;
\* choose_vertical returns UNKNOWN with confidence 0.0 for no files, UNKNOWN
\* with 0.1 when every file is of unknown type, and otherwise the known
\* category with the largest count, the earliest among equals, with the
\* confidence of its share of all files.
C30_ChooseVertical ==
    /\ SumCounts(rec.counts, Known) + rec.counts["UNKNOWN"] = rec.files
    /\ rec.result # NoChoice =>
          IF rec.files = 0
          THEN rec.result = [category |-> "UNKNOWN", confidence |-> 0]
          ELSE IF rec.counts["UNKNOWN"] = rec.files
          THEN rec.result = [category |-> "UNKNOWN", confidence |-> 10]
          ELSE /\ rec.result.category = Largest(rec.counts)
               /\ rec.result.confidence =
                      ConfidenceFor(rec.counts[Largest(rec.counts)], rec.files)

\* nine documents and one file of unknown type: DOCUMENTS at 0.95; the
\* share is exactly 90%
C30_Witness ==
    /\ rec.files = 10
    /\ rec.counts["DOCUMENTS"] = 9 /\ rec.counts["UNKNOWN"] = 1
    /\ rec.result = [category |-> "DOCUMENTS", confidence |-> 95]

\* two spreadsheets, two structured files and one unknown: the tie goes to
\* STRUCTURED, at 0.5
C30_WitnessTie ==
    /\ rec.counts["STRUCTURED"] = 2 /\ rec.counts["SPREADSHEETS"] = 2
    /\ rec.counts["UNKNOWN"] = 1 /\ rec.files = 5
    /\ rec.result = [category |-> "STRUCTURED", confidence |-> 50]

====
